---- MODULE Spec2Model ----
(***************************************************************************)
(* Model of the Bluesky publishing plugin: BlueskyBot (login, createPost,  *)
(* createThread), createBlueskyPost, the 'Post highlighted text' command   *)
(* and the compose view BlueskyTab.                                        *)
(*                                                                         *)
(* A string is a sequence of one-character strings.  Array indices are     *)
(* 1-based here and 0-based in the source.  One asynchronous invocation    *)
(* of the bot is in flight at a time; every action runs a handler from a   *)
(* resolved await to the next await on a remote call (JavaScript runs the  *)
(* code between two awaits without interleaving).  `trace` is the history  *)
(* of the current invocation: remote calls, their returns, notices and     *)
(* the errors the bot methods throw, in program order.                     *)
(***************************************************************************)
EXTENDS Integers, Sequences, FiniteSets, TLC

MAX_CHARS == 300

\* Bounds of the model: segments of a draft or of a thread.
MaxPosts == 3

VARIABLES settings, session, posts, isPosting, dom,
          pc, entry, args, idx, rootPost, lastPost, facets,
          trace, outcome

vars == <<settings, session, posts, isPosting, dom,
          pc, entry, args, idx, rootPost, lastPost, facets,
          trace, outcome>>

tabVars == <<posts, isPosting, dom>>
locals == <<idx, rootPost, lastPost, facets>>

----------------------------------------------------------------------------
\* Strings, run-length encoded: a string is a sequence of runs [c, n], the
\* character c repeated n >= 1 times, adjacent runs of different characters.

Run(c, n) == [c |-> c, n |-> n]

Empty == <<>>

RECURSIVE StrLen(_)
\* String.prototype.length
StrLen(s) == IF s = <<>> THEN 0 ELSE Head(s).n + StrLen(Tail(s))

RECURSIVE Slice(_, _)
\* A variant of slice that returns the whole string
Slice_None(s, n) == s

\* String.prototype.slice(0, n): the first n characters
Slice(s, n) ==
  IF s = <<>> \/ n <= 0 THEN <<>>
  ELSE IF Head(s).n >= n THEN <<Run(Head(s).c, n)>>
  ELSE <<Head(s)>> \o Slice(Tail(s), n - Head(s).n)

\* String.prototype.trim(): drop leading and trailing white space
Trim(s) ==
  LET a == IF s # <<>> /\ Head(s).c = " " THEN Tail(s) ELSE s
  IN  IF a # <<>> /\ a[Len(a)].c = " " THEN SubSeq(a, 1, Len(a) - 1) ELSE a

\* JavaScript truthiness of a string
Truthy(s) == StrLen(s) > 0

\* A hole of a sparse array (an index never assigned)
Hole == <<Run("<hole>", 1)>>

\* The values a user can type, select or pass: empty, blank, short, and one
\* character longer than MAX_CHARS.
TooLong == <<Run("a", MAX_CHARS + 1)>>
InputValues == {Empty, <<Run(" ", 1)>>, <<Run("b", 1)>>, TooLong}

\* Stored credential values; Absent is a key missing from the loaded data.
Absent == "<absent>"
CredValues == {Absent, "", "handle"}

Bots == {"tab", "cmd", "api"}

----------------------------------------------------------------------------
\* Published post references, reply links, events of the trace

Null == [uri |-> 0, cid |-> 0]

NoReply == [has |-> FALSE, root |-> Null, parent |-> Null]
Reply(root, parent) == [has |-> TRUE, root |-> root, parent |-> parent]

NoFacets == <<>>
DetectedFacets == {<<"link">>}

MissingMsg == "Missing Bluesky credentials - please configure them in settings"
NotLoggedInMsg == "Not logged in"
AuthFailedMsg == "remote authentication failed"
FacetFailedMsg == "facet detection failed"
SubmitFailedMsg == "record submission failed"

NoCred == [identifier |-> "", password |-> ""]

BaseEvent == [e |-> "", kind |-> "", text |-> Empty, reply |-> NoReply,
              facets |-> NoFacets, session |-> FALSE, ok |-> FALSE,
              ref |-> Null, msg |-> "", cred |-> NoCred]

\* A bot method is entered: login with the stored credentials it reads,
\* createPost and createThread with the agent's session state
Invoke(method, sess, cred) ==
  [BaseEvent EXCEPT !.e = "invoke", !.kind = method, !.session = sess, !.cred = cred]
\* agent.login({identifier, password})
CallLogin(cred) == [BaseEvent EXCEPT !.e = "call", !.kind = "login", !.cred = cred]

Call(kind, text, reply, fs, sess) ==
  [BaseEvent EXCEPT !.e = "call", !.kind = kind, !.text = text,
                    !.reply = reply, !.facets = fs, !.session = sess]
RetOk(kind, ref, fs) ==
  [BaseEvent EXCEPT !.e = "ret", !.kind = kind, !.ok = TRUE, !.ref = ref,
                    !.facets = fs]
RetFail(kind, msg) ==
  [BaseEvent EXCEPT !.e = "ret", !.kind = kind, !.msg = msg]
Notice(kind, msg) == [BaseEvent EXCEPT !.e = "notice", !.kind = kind, !.msg = msg]
Throw(from, msg) == [BaseEvent EXCEPT !.e = "throw", !.kind = from, !.msg = msg]

NoOutcome == [state |-> "none", message |-> ""]
Ok == [state |-> "ok", message |-> ""]
Err(msg) == [state |-> "error", message |-> msg]

----------------------------------------------------------------------------
\* BlueskyTab: the posts list and the rendered view

\* posts.filter(post => post.trim()): filter skips holes, keeps the raw text
NonBlank(p) == p # Hole /\ Truthy(Trim(p))
\* A variant of the filter that keeps every segment
ValidPosts_All(ps) == ps

\* this.posts.filter(post => post.trim())
ValidPosts(ps) == SelectSeq(ps, NonBlank)

hasValidFirstPost(ps) == Len(ps) >= 1 /\ NonBlank(ps[1])
hasAnyContent(ps) == \E k \in 1..Len(ps) : NonBlank(ps[k])

\* this.posts[index] = value (an index past the end leaves holes)
SetAt(ps, index, v) ==
  [k \in 1..(IF index > Len(ps) THEN index ELSE Len(ps)) |->
     IF k = index THEN v ELSE IF k <= Len(ps) THEN ps[k] ELSE Hole]

\* array.splice(index, 1), and NodeList[index]?.remove()
Splice(ps, index) ==
  IF index > Len(ps) THEN ps
  ELSE SubSeq(ps, 1, index - 1) \o SubSeq(ps, index + 1, Len(ps))

Area(index, close) == [index |-> index, close |-> close]

\* display(): one text area per element of posts (forEach skips holes), each
\* bound to its index; then the two buttons.
Display(ps, posting) ==
  LET live == SelectSeq([k \in 1..Len(ps) |-> k], LAMBDA k : ps[k] # Hole)
  IN  [areas |-> [j \in 1..Len(live) |-> Area(live[j], FALSE)],
       addDisabled |-> ~hasValidFirstPost(ps),
       postDisabled |-> posting \/ ~hasValidFirstPost(ps) \/ ~hasAnyContent(ps),
       postLabel |-> IF posting THEN "Posting..." ELSE "Post"]

\* handlePostChange(index, event) with event.target.value = value
handlePostChange(index, value) ==
  LET limitedText == Slice(value, MAX_CHARS)
      ps == SetAt(posts, index, limitedText)
  IN  /\ posts' = ps
      /\ dom' = [dom EXCEPT !.addDisabled = ~hasValidFirstPost(ps),
                            !.postDisabled = ~hasValidFirstPost(ps) \/ ~hasAnyContent(ps)]
      /\ UNCHANGED isPosting

\* addPost(): the new text area and its close button capture index = posts.length
addPost ==
  LET index == Len(posts) + 1
  IN  /\ posts' = Append(posts, Empty)
      /\ dom' = [dom EXCEPT !.areas = Append(@, Area(index, TRUE))]
      /\ UNCHANGED isPosting

\* removePost(index)
removePost(index) ==
  IF Len(posts) = 1 THEN UNCHANGED tabVars
  ELSE /\ posts' = Splice(posts, index)
       /\ dom' = [dom EXCEPT !.areas = Splice(@, index)]
       /\ UNCHANGED isPosting

\* The user types into the j-th displayed text area.
TabInput ==
  \E j \in 1..Len(dom.areas), v \in InputValues :
    /\ handlePostChange(dom.areas[j].index, v)
    /\ UNCHANGED <<settings, session, pc, entry, args, locals, trace, outcome>>

\* The user clicks 'Add to thread' (a disabled button receives no click).
TabAddPost ==
  /\ ~dom.addDisabled
  /\ Len(posts) < MaxPosts
  /\ addPost
  /\ UNCHANGED <<settings, session, pc, entry, args, locals, trace, outcome>>

\* The user clicks the close button of the j-th displayed text area.
TabRemovePost ==
  \E j \in 1..Len(dom.areas) :
    /\ dom.areas[j].close
    /\ removePost(dom.areas[j].index)
    /\ UNCHANGED <<settings, session, pc, entry, args, locals, trace, outcome>>

\* The settings tab's onChange handlers.
SetCredentials ==
  \E f \in {"blueskyIdentifier", "blueskyAppPassword"}, v \in {"", "handle"} :
    /\ settings' = [settings EXCEPT ![f] = v]
    /\ UNCHANGED <<session, tabVars, pc, entry, args, locals, trace, outcome>>

----------------------------------------------------------------------------
\* The asynchronous flow: entry points, suspension at a remote call, completion

BotOf(en) == IF en = "tab" THEN "tab" ELSE IF en = "cmd" THEN "cmd" ELSE "api"

\* The invocation suspends on a remote call.  publishContent has set
\* isPosting and called display() before its first await.
Suspend(en, p, tr, starting) ==
  /\ pc' = p
  /\ trace' = tr
  /\ outcome' = NoOutcome
  /\ IF en = "tab" /\ starting
     THEN /\ isPosting' = TRUE
          /\ dom' = Display(posts, TRUE)
          /\ UNCHANGED posts
     ELSE UNCHANGED tabVars

\* The editor command's try/catch around createBlueskyPost
CmdReport(tr, res) ==
  IF res.state = "ok" THEN Append(tr, Notice("success", ""))
  ELSE Append(tr, Notice("failed", res.message))

\* A variant of the rest of publishContent that resets the draft whatever
\* the result was
TabSettle_AlwaysReset(res) ==
  /\ posts' = <<Empty>>
  /\ isPosting' = FALSE
  /\ dom' = Display(<<Empty>>, FALSE)

\* The rest of publishContent after its awaits: reset the draft on success,
\* swallow the error on failure, then the finally block.
TabSettle(res) ==
  LET ps == IF res.state = "ok" THEN <<Empty>> ELSE posts
  IN  /\ posts' = ps
      /\ isPosting' = FALSE
      /\ dom' = Display(ps, FALSE)

\* A variant of Finish in which publishContent has no finally block: a
\* failed publish leaves the view as it is
Finish_NoFinally(en, tr, res) ==
  /\ pc' = "idle"
  /\ outcome' = res
  /\ IF en = "tab"
     THEN /\ trace' = tr
          /\ IF res.state = "ok" THEN TabSettle(res) ELSE UNCHANGED tabVars
     ELSE /\ trace' = IF en = "cmd" THEN CmdReport(tr, res) ELSE tr
          /\ UNCHANGED tabVars

\* The bot methods of the invocation have settled with `res`; control is
\* back in the entry point, which runs to its end.
Finish(en, tr, res) ==
  /\ pc' = "idle"
  /\ outcome' = res
  /\ IF en = "tab"
     THEN /\ trace' = tr
          /\ TabSettle(res)
     ELSE /\ trace' = IF en = "cmd" THEN CmdReport(tr, res) ELSE tr
          /\ UNCHANGED tabVars

\* A variant of the check that wants both credentials missing
MissingCredentials_Both(id, pw) == id \in {"", Absent} /\ pw \in {"", Absent}

\* login(): the credentials check
MissingCredentials(id, pw) == id \in {"", Absent} \/ pw \in {"", Absent}

\* A variant of LoginMissing that throws without the notice
LoginMissing_Silent(tr) == Append(tr, Throw("login", MissingMsg))

\* login(): the branch taken when the check fails
LoginMissing(tr) ==
  tr \o <<Notice("notLoggedIn", ""), Throw("login", MissingMsg)>>

\* login() up to its await
StartLogin(en, tr, starting) ==
  LET cred == [identifier |-> settings.blueskyIdentifier,
               password |-> settings.blueskyAppPassword]
      tr1 == Append(tr, Invoke("login", session[BotOf(en)], cred))
  IN  IF MissingCredentials(cred.identifier, cred.password)
      THEN Finish(en, LoginMissing(tr1), Err(MissingMsg))
      ELSE Suspend(en, "login", Append(tr1, CallLogin(cred)), starting)

\* createPost(): the catch block
CreatePostFailed(tr, msg) ==
  tr \o <<Notice("failed", msg), Throw("createPost", msg)>>

\* createPost(text) up to its await
StartCreatePost(en, tr, text, sess) ==
  LET tr1 == Append(tr, Invoke("createPost", sess, NoCred))
  IN  /\ UNCHANGED locals
      /\ IF ~sess
         THEN Finish(en, CreatePostFailed(tr1, NotLoggedInMsg), Err(NotLoggedInMsg))
         ELSE Suspend(en, "createRecord",
                      Append(tr1, Call("createRecord", text, NoReply, NoFacets, sess)),
                      FALSE)

\* createThread(): one iteration of the loop up to `await rt.detectFacets`
StartSegment(en, tr, ps, k, root, last, sess) ==
  /\ idx' = k
  /\ rootPost' = root
  /\ lastPost' = last
  /\ facets' = NoFacets
  /\ Suspend(en, "detectFacets",
             Append(tr, Call("detectFacets", ps[k], NoReply, NoFacets, sess)), FALSE)

\* A variant of StartThread without the empty-list guard: the loop runs zero
\* times and the success notice follows
StartThread_NoGuard(en, tr, ps, sess) ==
  LET tr1 == Append(tr, Invoke("createThread", sess, NoCred))
  IN  IF Len(ps) = 0
      THEN /\ UNCHANGED locals
           /\ Finish(en, Append(tr1, Notice("success", "")), Ok)
      ELSE StartSegment(en, tr1, ps, 1, Null, Null, sess)

\* createThread(posts) up to its first await
StartThread(en, tr, ps, sess) ==
  LET tr1 == Append(tr, Invoke("createThread", sess, NoCred))
  IN  IF Len(ps) = 0
      THEN /\ UNCHANGED locals
           /\ Finish(en, tr1, Ok)
      ELSE StartSegment(en, tr1, ps, 1, Null, Null, sess)

\* A variant of AfterLogin in which the view filters its draft only after
\* login() has resolved
AfterLogin_LiveDraft(en, tr, ps) ==
  LET live == IF en = "tab" THEN ValidPosts(posts) ELSE ps
  IN  IF en = "login" \/ Len(live) = 0 THEN UNCHANGED locals /\ Finish(en, tr, Ok)
      ELSE IF en = "cmd" \/ Len(live) = 1 THEN StartCreatePost(en, tr, live[1], TRUE)
      ELSE StartThread(en, tr, live, TRUE)

\* What the entry point does once login() has resolved
AfterLogin(en, tr, ps) ==
  IF en = "login" THEN UNCHANGED locals /\ Finish(en, tr, Ok)
  ELSE IF en = "cmd" \/ Len(ps) = 1 THEN StartCreatePost(en, tr, ps[1], TRUE)
  ELSE StartThread(en, tr, ps, TRUE)

----------------------------------------------------------------------------
\* The remote service

\* The reference of a new record: unique among the records of the invocation
FreshRef(tr) ==
  LET n == 1 + Len(SelectSeq(tr, LAMBDA ev : ev.e = "ret" /\ ev.kind = "post" /\ ev.ok))
  IN  [uri |-> n, cid |-> n]

LastCall(tr) == tr[Len(tr)]

----------------------------------------------------------------------------
\* Entry points

\* A click on the Post button: publishContent()
\* A variant of publishContent without the isPosting guard: a click during
\* a publish starts a second one
TabPublish_NoGuard ==
  /\ ~dom.postDisabled
  /\ LET validPosts == ValidPosts(posts)
     IN  IF Len(validPosts) = 0 THEN UNCHANGED vars
         ELSE /\ entry' = "tab"
              /\ args' = validPosts
              /\ StartLogin("tab", <<>>, TRUE)
              /\ UNCHANGED <<settings, session, locals>>

TabPublish ==
  /\ ~dom.postDisabled
  /\ IF isPosting THEN UNCHANGED vars
     ELSE LET validPosts == ValidPosts(posts)
          IN  IF Len(validPosts) = 0 THEN UNCHANGED vars
              ELSE /\ pc = "idle"
                   /\ entry' = "tab"
                   /\ args' = validPosts
                   /\ StartLogin("tab", <<>>, TRUE)
                   /\ UNCHANGED <<settings, session, locals>>

\* The 'Post highlighted text' command: editorCallback, createBlueskyPost
CmdPostHighlighted ==
  \E selectedText \in InputValues :
    /\ pc = "idle"
    /\ entry' = "cmd"
    /\ UNCHANGED <<settings, locals>>
    /\ IF ~Truthy(selectedText)
       THEN /\ args' = <<>>
            /\ trace' = <<Notice("selectText", "")>>
            /\ UNCHANGED <<pc, session, tabVars, outcome>>
       ELSE /\ args' = <<selectedText>>
            /\ session' = [session EXCEPT !["cmd"] = FALSE]
            /\ StartLogin("cmd", <<>>, FALSE)

\* bot.login() called on a bot
ApiLogin ==
  /\ pc = "idle"
  /\ entry' = "login"
  /\ args' = <<>>
  /\ StartLogin("login", <<>>, FALSE)
  /\ UNCHANGED <<settings, session, locals>>

\* bot.createPost(text) called on a bot
ApiCreatePost ==
  \E text \in InputValues :
    /\ pc = "idle"
    /\ entry' = "createPost"
    /\ args' = <<text>>
    /\ StartCreatePost("createPost", <<>>, text, session["api"])
    /\ UNCHANGED <<settings, session>>

\* bot.createThread(posts) called on a bot
ApiCreateThread ==
  \E n \in 0..MaxPosts : \E ps \in [1..n -> InputValues] :
    /\ pc = "idle"
    /\ entry' = "createThread"
    /\ args' = ps
    /\ StartThread("createThread", <<>>, ps, session["api"])
    /\ UNCHANGED <<settings, session>>

----------------------------------------------------------------------------
\* Remote calls resolve

\* agent.login resolves
LoginOk ==
  /\ pc = "login"
  /\ session' = [session EXCEPT ![BotOf(entry)] = TRUE]
  /\ AfterLogin(entry, Append(trace, RetOk("login", Null, NoFacets)), args)
  /\ UNCHANGED <<settings, entry, args>>

\* agent.login rejects: login() logs and rethrows; the agent may keep or
\* drop an earlier session
LoginFail ==
  /\ pc = "login"
  /\ \E keep \in BOOLEAN :
       session' = IF keep THEN session ELSE [session EXCEPT ![BotOf(entry)] = FALSE]
  /\ Finish(entry, trace \o <<RetFail("login", AuthFailedMsg), Throw("login", AuthFailedMsg)>>,
            Err(AuthFailedMsg))
  /\ UNCHANGED <<settings, entry, args, locals>>

\* createRecord resolves (createPost ignores the response): success notice
CreateRecordOk ==
  /\ pc = "createRecord"
  /\ Finish(entry, trace \o <<RetOk("createRecord", Null, NoFacets), Notice("success", "")>>, Ok)
  /\ UNCHANGED <<settings, session, entry, args, locals>>

\* createRecord rejects: createPost's catch block
CreateRecordFail ==
  /\ pc = "createRecord"
  /\ Finish(entry, CreatePostFailed(Append(trace, RetFail("createRecord", SubmitFailedMsg)),
                                    SubmitFailedMsg),
            Err(SubmitFailedMsg))
  /\ UNCHANGED <<settings, session, entry, args, locals>>

\* A variant of ReplyLink that links every reply to the root alone
ReplyLink_RootOnly(root, last) == IF last # Null THEN Reply(root, root) ELSE NoReply

\* createThread(): the reply link of the next record
ReplyLink(root, last) == IF last # Null THEN Reply(root, last) ELSE NoReply

\* A variant of DetectOk that starts the next segment's facet detection
\* together with the submission of this one
DetectOk_Prefetch ==
  /\ pc = "detectFacets"
  /\ \E fs \in DetectedFacets :
       /\ facets' = fs
       /\ Suspend(entry, "post",
                  trace \o <<RetOk("detectFacets", Null, fs),
                             Call("post", args[idx], ReplyLink(rootPost, lastPost), fs,
                                  session[BotOf(entry)])>>
                        \o (IF idx < Len(args)
                            THEN <<Call("detectFacets", args[idx + 1], NoReply, NoFacets,
                                        session[BotOf(entry)])>>
                            ELSE <<>>),
                  FALSE)
  /\ UNCHANGED <<settings, session, entry, args, idx, rootPost, lastPost>>

\* detectFacets resolves: build the record and call agent.post
DetectOk ==
  /\ pc = "detectFacets"
  /\ \E fs \in DetectedFacets :
       /\ facets' = fs
       /\ Suspend(entry, "post",
                  trace \o <<RetOk("detectFacets", Null, fs),
                             Call("post", args[idx], ReplyLink(rootPost, lastPost), fs,
                                  session[BotOf(entry)])>>,
                  FALSE)
  /\ UNCHANGED <<settings, session, entry, args, idx, rootPost, lastPost>>

\* detectFacets rejects: nothing catches it, createThread rejects
DetectFail ==
  /\ pc = "detectFacets"
  /\ Finish(entry, trace \o <<RetFail("detectFacets", FacetFailedMsg),
                              Throw("createThread", FacetFailedMsg)>>,
            Err(FacetFailedMsg))
  /\ UNCHANGED <<settings, session, entry, args, locals>>

\* agent.post resolves with the new record's reference: next segment, or
\* the success notice after the last one
PostOk ==
  /\ pc = "post"
  /\ LastCall(trace).session
  /\ LET result == FreshRef(trace)
         tr == Append(trace, RetOk("post", result, NoFacets))
         root == IF rootPost = Null THEN result ELSE rootPost
     IN  IF idx < Len(args)
         THEN StartSegment(entry, tr, args, idx + 1, root, result, session[BotOf(entry)])
         ELSE /\ rootPost' = root
              /\ lastPost' = result
              /\ UNCHANGED <<idx, facets>>
              /\ Finish(entry, Append(tr, Notice("success", "")), Ok)
  /\ UNCHANGED <<settings, session, entry, args>>

\* A variant of PostFail that submits the rejected record again
PostFail_Retry ==
  /\ pc = "post"
  /\ Len(trace) < 4 * MaxPosts
  /\ trace' = trace \o <<RetFail("post", SubmitFailedMsg), LastCall(trace)>>
  /\ UNCHANGED <<settings, session, tabVars, pc, entry, args, locals, outcome>>

\* agent.post rejects: nothing catches it, createThread rejects
PostFail ==
  /\ pc = "post"
  /\ Finish(entry, trace \o <<RetFail("post", SubmitFailedMsg),
                              Throw("createThread", SubmitFailedMsg)>>,
            Err(SubmitFailedMsg))
  /\ UNCHANGED <<settings, session, entry, args, locals>>

----------------------------------------------------------------------------
\* After onload() and onOpen(): the settings are the loaded data over the
\* defaults, the compose view shows one empty segment.
Init ==
  /\ settings \in [{"blueskyIdentifier", "blueskyAppPassword"} -> CredValues]
  /\ session = [b \in Bots |-> FALSE]
  /\ posts = <<Empty>>
  /\ isPosting = FALSE
  /\ dom = Display(<<Empty>>, FALSE)
  /\ pc = "idle"
  /\ entry = "none"
  /\ args = <<>>
  /\ idx = 0
  /\ rootPost = Null
  /\ lastPost = Null
  /\ facets = NoFacets
  /\ trace = <<>>
  /\ outcome = NoOutcome

\* The bot and its callers outside the compose view: the editor command and
\* direct calls of the exported BlueskyBot methods
Next ==
  \/ SetCredentials
  \/ CmdPostHighlighted
  \/ ApiLogin
  \/ ApiCreatePost
  \/ ApiCreateThread
  \/ LoginOk
  \/ LoginFail
  \/ CreateRecordOk
  \/ CreateRecordFail
  \/ DetectOk
  \/ DetectFail
  \/ PostOk
  \/ PostFail

Spec == Init /\ [][Next]_vars

\* The compose view: its events, and the publishes it starts on its own bot,
\* under each of the stored settings
TabNext ==
  \/ TabInput
  \/ TabAddPost
  \/ TabRemovePost
  \/ TabPublish
  \/ LoginOk
  \/ LoginFail
  \/ CreateRecordOk
  \/ CreateRecordFail
  \/ DetectOk
  \/ DetectFail
  \/ PostOk
  \/ PostFail

SpecTab == Init /\ [][TabNext]_vars

\* The pending remote call resolves or rejects and the continuation of the
\* awaiting method runs
Resolve ==
  \/ LoginOk
  \/ LoginFail
  \/ CreateRecordOk
  \/ CreateRecordFail
  \/ DetectOk
  \/ DetectFail
  \/ PostOk
  \/ PostFail

\* The compose view when every pending remote call eventually settles and
\* the event loop then runs the continuation
FairSpecTab == SpecTab /\ WF_vars(Resolve)

\* The compose view's editing events alone: typing, adding and removing
\* segments
ViewNext ==
  \/ TabInput
  \/ TabAddPost
  \/ TabRemovePost

SpecView == Init /\ [][ViewNext]_vars

----------------------------------------------------------------------------
\* Reading the trace of the current invocation

IsCall(ev, kind) == ev.e = "call" /\ ev.kind = kind
IsSubmission(ev) == IsCall(ev, "post") \/ IsCall(ev, "createRecord")
IsRet(ev, kind) == ev.e = "ret" /\ ev.kind = kind
IsNotice(ev) == ev.e = "notice"
IsInvoke(ev, method) == ev.e = "invoke" /\ ev.kind = method
IsFilled(c) == c \notin {"", Absent}

\* The record submissions issued so far, the references returned so far,
\* and the notices shown so far, each in order
Submissions == SelectSeq(trace, IsSubmission)
PostRefs == SelectSeq(trace, LAMBDA ev : IsRet(ev, "post") /\ ev.ok)
Notices == SelectSeq(trace, IsNotice)
\* The positions of the trace at which a record submission was rejected
FailedSubmissions ==
  {j \in 1..Len(trace) :
     (IsRet(trace[j], "post") \/ IsRet(trace[j], "createRecord")) /\ ~trace[j].ok}
\* createPost or createThread was entered on a bot that holds a session
InvokedLoggedIn ==
  \E j \in 1..Len(trace) :
    (IsInvoke(trace[j], "createPost") \/ IsInvoke(trace[j], "createThread"))
      /\ trace[j].session
\* createThread was entered in this invocation
ThreadInvoked == \E j \in 1..Len(trace) : IsInvoke(trace[j], "createThread")
\* The number of submissions issued before position j of the trace
SubmittedBefore(j) == Len(SelectSeq(SubSeq(trace, 1, j), IsSubmission))

----------------------------------------------------------------------------
\* C1: createThread on N > 1 segments submits the segments in order, the
\* first without a reply link and every later one with reply.root the
\* reference returned for segment 0 and reply.parent the reference returned
\* for the segment before it; when it succeeds it has issued exactly N
\* submissions.
C1_ReplyChain ==
  (ThreadInvoked /\ Len(args) > 1) =>
    /\ Len(Submissions) <= Len(args)
    /\ Len(PostRefs) <= Len(Submissions)
    /\ \A i \in 1..Len(Submissions) :
         /\ Submissions[i].kind = "post"
         /\ Submissions[i].text = args[i]
         /\ i = 1 => ~Submissions[i].reply.has
         /\ i > 1 => /\ Submissions[i].reply.has
                     /\ Submissions[i].reply.root = PostRefs[1].ref
                     /\ Submissions[i].reply.parent = PostRefs[i - 1].ref
    /\ outcome.state = "ok" => /\ Len(Submissions) = Len(args)
                               /\ Len(PostRefs) = Len(args)

\* A thread of three different segments has been published.
C1_Witness ==
  /\ entry = "createThread" /\ Len(args) = 3 /\ outcome.state = "ok"
  /\ args[1] # args[2] /\ args[2] # args[3]
  /\ Len(Submissions) = 3
  /\ Submissions[3].reply.root # Submissions[3].reply.parent

\* C2: when the submission of segment k of a thread is rejected, segments
\* 0..k-1 were submitted before it and accepted (k accepted submissions),
\* segment k was submitted once, nothing is issued after the rejection and
\* the invocation has ended with that error.
C2_AbortOnFirstFailure ==
  \A j \in FailedSubmissions :
    IsRet(trace[j], "post") =>
      LET k == SubmittedBefore(j) - 1
      IN  /\ j = Len(trace) - 1
          /\ trace[Len(trace)] = Throw("createThread", trace[j].msg)
          /\ pc = "idle" /\ outcome = Err(trace[j].msg)
          /\ Len(Submissions) = k + 1
          /\ Len(PostRefs) = k
          /\ \A i \in 1..(k + 1) : Submissions[i].text = args[i]
          /\ Cardinality(FailedSubmissions) = 1

\* The third submission of a thread was rejected after two were accepted.
C2_Witness ==
  /\ entry = "createThread"
  /\ \E j \in FailedSubmissions : trace[j].kind = "post" /\ SubmittedBefore(j) = 3
  /\ Len(PostRefs) = 2

\* C3: a rejected facet detection does not abort createThread (here on a
\* logged-in bot): the segment is submitted next, with zero facets.
C3_FacetFailureContinues ==
  \A j \in 1..Len(trace) :
    (InvokedLoggedIn /\ IsRet(trace[j], "detectFacets") /\ ~trace[j].ok) =>
      /\ j < Len(trace)
      /\ IsCall(trace[j + 1], "post")
      /\ trace[j + 1].facets = NoFacets
      /\ trace[j + 1].text = args[idx]

\* C4: login entered with the stored identifier or app password empty or
\* absent issues no remote authentication call and fails with the
\* missing-credentials error; every authentication call carries both.
C4_MissingCredentialsNoCall ==
  /\ \A j \in 1..Len(trace) :
       (IsInvoke(trace[j], "login")
          /\ ~(IsFilled(trace[j].cred.identifier) /\ IsFilled(trace[j].cred.password))) =>
         /\ \A i \in 1..Len(trace) : ~IsCall(trace[i], "login")
         /\ \E i \in (j + 1)..Len(trace) : trace[i] = Throw("login", MissingMsg)
         /\ pc = "idle" /\ outcome = Err(MissingMsg)
  /\ \A i \in 1..Len(trace) :
       IsCall(trace[i], "login") =>
         IsFilled(trace[i].cred.identifier) /\ IsFilled(trace[i].cred.password)

\* login ran with an identifier and no app password, and failed.
C4_Witness ==
  /\ \E j \in 1..Len(trace) :
       /\ IsInvoke(trace[j], "login")
       /\ trace[j].cred.identifier = "handle"
       /\ trace[j].cred.password = ""
  /\ outcome = Err(MissingMsg)

\* C5: whenever login throws the missing-credentials error, the 'Not logged
\* in' notice was shown before the throw.
C5_NoticeBeforeThrow ==
  \A j \in 1..Len(trace) :
    trace[j] = Throw("login", MissingMsg) =>
      \E i \in 1..(j - 1) : trace[i] = Notice("notLoggedIn", "")

\* The editor command's login threw the missing-credentials error.
C5_Witness ==
  /\ entry = "cmd"
  /\ \E j \in 1..Len(trace) : trace[j] = Throw("login", MissingMsg)

\* C6: no record submission is issued by a bot without a session, and an
\* invocation whose login failed issues no submission.
C6_SubmissionsRequireSession ==
  /\ \A i \in 1..Len(Submissions) : Submissions[i].session
  /\ (\E j \in 1..Len(trace) : trace[j].e = "throw" /\ trace[j].kind = "login") =>
       Len(Submissions) = 0

\* C7: a finished publish of exactly one non-blank segment, by createPost or
\* by createThread on a logged-in bot, has issued exactly one submission,
\* of that segment, without a reply link.
C7_SingleSegment ==
  (/\ pc = "idle"
   /\ Len(args) = 1
   /\ NonBlank(args[1])
   /\ InvokedLoggedIn) =>
    /\ Len(Submissions) = 1
    /\ Submissions[1].text = args[1]
    /\ ~Submissions[1].reply.has

\* C8: no submitted record has a text longer than MAX_CHARS characters
\* (stated for the submissions of a logged-in bot, which the service accepts).
C8_TextWithinLimit ==
  \A i \in 1..Len(Submissions) :
    Submissions[i].session => StrLen(Submissions[i].text) <= MAX_CHARS

\* C9: when the submission of segment k of a thread is rejected, what the
\* caller receives names the number of segments published before (k) and
\* the index of the failing segment (k).
C9_PartialSuccessReported ==
  \A j \in FailedSubmissions :
    (InvokedLoggedIn /\ IsRet(trace[j], "post")) =>
      /\ {"published", "failedIndex"} \subseteq DOMAIN outcome
      /\ outcome.published = SubmittedBefore(j) - 1
      /\ outcome.failedIndex = SubmittedBefore(j) - 1

\* C10: a publish from the compose view or the editor command that failed
\* at login or at a submission has shown exactly one notice, and that
\* notice carries the failure's message.
C10_SingleFailureNotice ==
  (/\ pc = "idle"
   /\ entry \in {"tab", "cmd"}
   /\ outcome.state = "error"
   /\ outcome.message \in {MissingMsg, AuthFailedMsg, SubmitFailedMsg}) =>
    /\ Len(Notices) = 1
    /\ Notices[1].msg = outcome.message

\* The positions of the trace at which a success notice was shown
SuccessNotices == {j \in 1..Len(trace) : trace[j] = Notice("success", "")}
\* The number of record submissions accepted before position j of the trace
AcceptedBefore(j) ==
  Len(SelectSeq(SubSeq(trace, 1, j),
                LAMBDA ev : (IsRet(ev, "post") \/ IsRet(ev, "createRecord")) /\ ev.ok))

\* C11: a publish that succeeds has shown exactly one success notice; a
\* success notice is shown only after every segment of the batch was
\* submitted and accepted; a publish that failed has shown none.
C11_SingleSuccessNotice ==
  /\ (/\ pc = "idle"
      /\ outcome.state = "ok"
      /\ entry \in {"tab", "cmd", "createPost", "createThread"}
      /\ Len(args) >= 1) => Cardinality(SuccessNotices) = 1
  /\ \A j \in SuccessNotices : AcceptedBefore(j) = Len(args)
  /\ outcome.state = "error" => SuccessNotices = {}

\* C12: createThread called on a logged-in bot with a non-empty list of
\* blank segments fails fast: no facet detection and no record submission
\* is issued, and the call ends in an error.
C12_BlankThreadFailsFast ==
  (/\ ThreadInvoked
   /\ InvokedLoggedIn
   /\ Len(args) >= 1
   /\ \A k \in 1..Len(args) : ~Truthy(Trim(args[k]))) =>
    /\ \A j \in 1..Len(trace) : trace[j].e # "call"
    /\ pc = "idle"
    /\ outcome.state = "error"

\* C13: createThread called with zero segments issues no remote call, shows
\* no notice and returns.
C13_EmptyThreadNoCall ==
  (ThreadInvoked /\ Len(args) = 0) =>
    /\ \A j \in 1..Len(trace) : trace[j].e \notin {"call", "ret", "notice"}
    /\ pc = "idle"
    /\ outcome = Ok

\* createThread([]) has returned on a logged-in bot.
C13_Witness ==
  /\ entry = "createThread"
  /\ args = <<>>
  /\ InvokedLoggedIn
  /\ pc = "idle"

\* The remote calls and their returns, in order
RemoteEvents == SelectSeq(trace, LAMBDA ev : ev.e \in {"call", "ret"})

\* C17: the remote calls of one createThread are strictly sequential: every
\* call is issued only after the call before it has returned (at most one
\* in flight), each submission follows the resolved facet detection of its
\* segment, and the facet detection of a later segment follows the accepted
\* submission of the segment before it.
C17_StrictlySequential ==
  ThreadInvoked =>
    \A n \in 1..Len(RemoteEvents) :
      LET ev == RemoteEvents[n]
          first == \A m \in 1..(n - 1) : ~IsCall(RemoteEvents[m], "detectFacets")
      IN  /\ ev.e = "call" =>
               /\ n > 1 => RemoteEvents[n - 1].e = "ret"
               /\ n < Len(RemoteEvents) =>
                    RemoteEvents[n + 1].e = "ret" /\ RemoteEvents[n + 1].kind = ev.kind
          /\ ev.e = "ret" => n > 1 /\ RemoteEvents[n - 1].e = "call"
          /\ IsCall(ev, "post") =>
               IsRet(RemoteEvents[n - 1], "detectFacets") /\ RemoteEvents[n - 1].ok
          /\ (IsCall(ev, "detectFacets") /\ ~first) =>
               IsRet(RemoteEvents[n - 1], "post") /\ RemoteEvents[n - 1].ok

\* A thread of three segments has been published, call by call.
C17_Witness ==
  /\ entry = "createThread"
  /\ Len(args) = 3
  /\ outcome.state = "ok"
  /\ Len(SelectSeq(trace, LAMBDA ev : ev.e = "call")) = 6

\* C14: the Post button is enabled only if segment 0 is non-blank, some
\* segment is non-blank and no publish is in flight; the 'Add to thread'
\* button is enabled only if segment 0 is non-blank.
C14_ButtonsAgree ==
  /\ ~dom.postDisabled =>
        hasValidFirstPost(posts) /\ hasAnyContent(posts) /\ ~isPosting
  /\ ~dom.addDisabled => hasValidFirstPost(posts)

\* A step in which the compose view's publishContent gets past its guards
TabPublishStarts ==
  pc = "idle" /\ entry' = "tab" /\ (trace' # trace \/ args' # args)

\* C15: the view's publishContent never calls login or submits a record
\* when every segment of the draft is blank; blank segments are dropped and
\* the remaining ones are published in their original relative order.
C15_BlankSegmentsDropped ==
  /\ [][TabPublishStarts =>
          /\ hasAnyContent(posts)
          /\ \E j \in 1..Len(trace') : IsCall(trace'[j], "login") \/ IsNotice(trace'[j])
          /\ args' = SelectSeq(posts, NonBlank)]_vars
  /\ [](entry = "tab" =>
          /\ Len(Submissions) <= Len(args)
          /\ \A i \in 1..Len(Submissions) : Submissions[i].text = args[i])

\* A draft of three segments whose middle one is blank is being published:
\* the second submission carries the third segment.
C15_Witness ==
  /\ entry = "tab"
  /\ pc = "post"
  /\ Len(posts) = 3
  /\ ~NonBlank(posts[2])
  /\ args = <<posts[1], posts[3]>>
  /\ Len(Submissions) = 2
  /\ Submissions[2].text = posts[3]

\* C16: after any sequence of input, add-segment and remove-segment events
\* every element of the view's posts list has at most MAX_CHARS characters.
C16_SegmentsCapped ==
  \A k \in 1..Len(posts) : posts[k] # Hole => StrLen(posts[k]) <= MAX_CHARS

\* An over-long input has been cut to exactly MAX_CHARS characters in a
\* segment added to the thread.
C16_Witness ==
  /\ Len(posts) >= 2
  /\ \E k \in 2..Len(posts) : posts[k] # Hole /\ StrLen(posts[k]) = MAX_CHARS

\* The events a step adds to the trace, or the whole new trace when the
\* step starts another invocation
AddedEvents ==
  IF Len(trace') >= Len(trace) /\ SubSeq(trace', 1, Len(trace)) = trace
  THEN SubSeq(trace', Len(trace) + 1, Len(trace'))
  ELSE trace'

\* C18: at most one publish of the compose view is in flight: while
\* isPosting is set no step enters login again or starts another
\* invocation, so the one in flight keeps its segments and its history and
\* issues at most one login call; a click on Post in that state changes
\* nothing.
C18_OnePublishInFlight ==
  /\ [][isPosting =>
          /\ entry' = entry /\ args' = args
          /\ Len(trace') >= Len(trace) /\ SubSeq(trace', 1, Len(trace)) = trace
          /\ \A j \in 1..Len(AddedEvents) : ~IsInvoke(AddedEvents[j], "login")
          /\ pc # "idle"]_vars
  /\ [](entry = "tab" =>
          Len(SelectSeq(trace, LAMBDA ev : IsCall(ev, "login"))) <= 1)

\* The Post button can be clicked while a publish is in flight.
C18_Witness ==
  /\ isPosting
  /\ ~dom.postDisabled
  /\ pc \in {"login", "createRecord", "detectFacets", "post"}

\* C19: the posts list and the displayed text areas stay in one-to-one
\* correspondence: as many elements as text areas, and the j-th text area's
\* input and remove handlers act on the j-th element of posts.
C19_AreasMatchPosts ==
  /\ Len(posts) = Len(dom.areas)
  /\ \A j \in 1..Len(dom.areas) : dom.areas[j].index = j

\* A step in which a publishContent invocation that got past its guards
\* runs to its end
TabPublishEnds ==
  entry' = "tab" /\ pc' = "idle" /\ (pc # "idle" \/ TabPublishStarts)

\* C20: when a publish started from the view completes successfully the
\* draft is reset to a single empty segment; when it fails, at login or at
\* any submission, the posts list is left exactly as it was.
C20_DraftResetOnlyOnSuccess ==
  [][TabPublishEnds =>
       /\ outcome'.state \in {"ok", "error"}
       /\ outcome'.state = "ok" => posts' = <<Empty>>
       /\ outcome'.state = "error" => posts' = posts
       /\ ~isPosting']_vars

\* A thread of three segments has failed at its third submission after two
\* were accepted, and the draft still holds all three.
C20_Witness ==
  /\ entry = "tab"
  /\ pc = "idle"
  /\ outcome.state = "error"
  /\ Len(args) = 3
  /\ Len(PostRefs) = 2
  /\ posts = args

\* C21: isPosting is set only while a publish of the view is in flight, and
\* once the pending remote calls settle, successfully or not, it is cleared
\* again.
C21_PostingFlagCleared ==
  /\ [](isPosting <=> (entry = "tab" /\ pc # "idle"))
  /\ [](isPosting => dom.postLabel = "Posting...")
  /\ (isPosting ~> ~isPosting)
  /\ [](~isPosting => dom.postLabel = "Post")

\* A publish of the view that was in flight has failed at a remote call and
\* the flag is clear again.
C21_Witness ==
  /\ entry = "tab"
  /\ pc = "idle"
  /\ outcome.state = "error"
  /\ \E j \in 1..Len(trace) : trace[j].e = "ret" /\ ~trace[j].ok
  /\ ~isPosting
  /\ dom.postLabel = "Post"

\* The texts of the records submitted so far, in order
SubmittedTexts == [i \in 1..Len(Submissions) |-> Submissions[i].text]

\* C22: the records a publish of the view submits are exactly the non-blank
\* segments of the draft at the moment Post was clicked; input, add-segment
\* and remove-segment events while the publish is in flight change neither
\* their number nor their text.
C22_DraftSnapshotPublished ==
  /\ [][TabPublishStarts => args' = ValidPosts(posts)]_vars
  /\ [][(isPosting /\ (posts' # posts \/ dom'.areas # dom.areas) /\ isPosting') =>
          args' = args /\ trace' = trace /\ UNCHANGED locals]_vars
  /\ [](entry = "tab" =>
          /\ Len(SubmittedTexts) <= Len(args)
          /\ SubmittedTexts = SubSeq(args, 1, Len(SubmittedTexts))
          /\ outcome.state = "ok" => SubmittedTexts = args)

\* The draft was edited while its publish was in flight, and the third
\* submission still carries the third segment of the draft as it was when
\* Post was clicked.
C22_Witness ==
  /\ entry = "tab"
  /\ pc = "post"
  /\ Len(args) = 3
  /\ SubmittedTexts = args
  /\ ValidPosts(posts) # args
  /\ Len(posts) = 3 /\ posts[3] # args[3]

====
